---- MODULE Spec2Model ----
(***************************************************************************)
(* Expander-graph lifting (graph -> hypergraph) and the random regular     *)
(* expander generator it is built on:                                      *)
(*   src/modules/transforms/liftings/graph2hypergraph/                     *)
(*       expander_graph_lifting.py                                         *)
(* and the DataTransform wrapper that picks a transform by name:           *)
(*   src/modules/transforms/data_transform.py                              *)
(*                                                                         *)
(* Spec and SpecLift run the generator and the lifting, SpecLiftFirst the  *)
(* first lift of one lifting object over the degrees and sizes of the      *)
(* generator, SpecExpander calls is_regular_expander on circulant graphs   *)
(* and paths, SpecTransform constructs a DataTransform and applies it.     *)
(*                                                                         *)
(* One generator call is in progress at a time.  Its position is pc:       *)
(*   "idle"     nothing has been called yet                                *)
(*   "enter"    at a call of maybe_regular_expander (l.327 or l.334),      *)
(*              before its first statement                                 *)
(*   "draw"     inside the while loop of maybe_regular_expander (l.171)    *)
(*   "verify"   at the while condition of random_regular_expander_graph    *)
(*              (l.332), G holding the candidate to be verified            *)
(*   "lifting"  in lift_topology at l.44, the generator having returned G  *)
(*   "returned" the call returned, "raised" the call raised `error`        *)
(* Random permutations are a nondeterministic choice.  Floats are          *)
(* fixed-point integers, Scale to the unit; the eigenvalues scipy's eigsh  *)
(* reports are those of the graph, the last place rounded either way and   *)
(* a tie in magnitude broken either way.                                   *)
(***************************************************************************)
EXTENDS Integers, Sequences, FiniteSets, TLC

\* ------------------------------------------------------------------ bounds
MaxN == 5
MaxD == 4
MaxTries == 3
MaxOverrun == 2
MaxLiftN == 4
MaxCircN == 19
MaxJumps == 3
MaxKwarg == 2

\* max_tries=100, the default of random_regular_expander_graph, which is
\* what lift_topology runs with
DefaultMaxTries == 100
\* epsilon=0, the default of random_regular_expander_graph
DefaultEpsilon == 0
\* fixed-point resolution of the floats of is_regular_expander
Scale == 10000

Ns == 0..MaxN
Ds == -1..MaxD
MaxTriesValues == -1..MaxTries
Epsilons == {-1, 0, 1}
LiftNs == 0..MaxLiftN
NodeDegrees == -3..3
Features == {"xA", "xB"}

VARIABLES
    lifting,          \* the ExpanderGraphLifting object: [exists, node_degree]
    ctor,             \* the last constructor call: [called, node_degree, raised]
    caller,           \* "none", "direct" or "lift": who called the generator
    n, d, epsilon, max_tries, seed,   \* arguments of the generator call
    x,                \* data.x of the lift_topology call
    pc,
    site,             \* "first": maybe_regular_expander of l.327, "retry": l.334
    i,                \* index of the cycle under construction (l.168)
    iterations,       \* maybe_regular_expander's draw budget (l.169, l.172)
    cycles,           \* l.164
    edges,            \* l.165: set of ordered pairs <<u, v>>
    G,                \* the graph of the current maybe_regular_expander call
    outer_iterations, \* random_regular_expander_graph's iterations (l.330)
    error,            \* message of the exception raised, "none" if none
    result,           \* graph returned by random_regular_expander_graph
    passed,           \* graph on which is_regular_expander last returned True
    drew,             \* a permutation has been drawn during this call
    created,          \* graphs created by empty_graph during this call
    generated,        \* candidates returned by maybe_regular_expander
    verified,         \* is_regular_expander calls that answered
    global_rng_used,  \* numpy's process-global RandomState was advanced
    lifted,           \* descriptor returned by lift_topology
    prev,             \* descriptor returned by the lift_topology call before
    expander_call,    \* a call of is_regular_expander made on its own:
                      \* [kind, n, jumps, G, epsilon, lambda2, answer]
    data_transform,   \* the DataTransform object: [exists, parameters, transform]
    dt_call,          \* the last DataTransform constructor call:
                      \* [called, transform_name, raised]
    transformed_data  \* what DataTransform.forward returned or raised

vars == <<lifting, ctor, caller, n, d, epsilon, max_tries, seed, x, pc, site, i,
          iterations, cycles, edges, G, outer_iterations, error, result, passed,
          drew, created, generated, verified, global_rng_used, lifted, prev,
          expander_call, data_transform, dt_call, transformed_data>>

\* ------------------------------------------------------------------ graphs
NoGraph == [n |-> -1, E |-> {}]

\* nx.empty_graph(n): nodes 0..n-1, no edges
empty_graph(n_) == [n |-> n_, E |-> {}]

\* Graph.add_edges_from on an undirected simple Graph: (u, v) and (v, u) are the
\* same edge, a repeated edge is stored once
add_edges_from(g, es) == [g EXCEPT !.E = g.E \cup {{e[1], e[2]} : e \in es}]

Nodes(g) == 0..(g.n - 1)

\* G.degree: a self-loop counts twice
Degree(g, v) ==
    Cardinality({e \in g.E : v \in e}) + Cardinality({e \in g.E : e = {v}})

\* nx.is_regular
is_regular(g) == \A v \in Nodes(g) : Degree(g, v) = Degree(g, 0)

Max(a, b) == IF a >= b THEN a ELSE b
Abs(a) == IF a >= 0 THEN a ELSE 0 - a

\* ------------------------------------------- maybe_regular_expander, pure parts
\* mutant: the room for d/2 cycles is not checked
maybe_validate_no_room(n_, d_) ==
    IF n_ < 1 THEN "n must be a positive integer"
    ELSE IF ~(d_ >= 2) THEN "d must be greater than or equal to 2"
    ELSE IF ~(d_ % 2 = 0) THEN "d must be even"
    ELSE "ok"

\* l.145-157: the argument checks, in the order of the code; "ok" when all pass
maybe_validate(n_, d_) ==
    IF n_ < 1 THEN "n must be a positive integer"
    ELSE IF ~(d_ >= 2) THEN "d must be greater than or equal to 2"
    ELSE IF ~(d_ % 2 = 0) THEN "d must be even"
    ELSE IF ~(n_ - 1 >= d_) THEN "Need n-1>= d to have room for independent cycles"
    ELSE "ok"

\* l.175-176: seed.permutation(n - 1).tolist() followed by n - 1; p is the
\* permutation of 0..n-2 that was drawn
make_cycle(n_, p) == [k \in 1..n_ |-> IF k < n_ THEN p[k - 1] ELSE n_ - 1]

\* nx.utils.pairwise(cycle, cyclic=True)
pairwise_cyclic(cycle) ==
    LET len == Len(cycle)
    IN  {<<cycle[k], cycle[(k % len) + 1]>> : k \in 1..len}

\* mutant: only the orientation (u, v) is looked up in edges
new_edges_one_way(cycle, es) ==
    {e \in pairwise_cyclic(cycle) : e \notin es}

\* l.178-182
new_edges(cycle, es) ==
    {e \in pairwise_cyclic(cycle) : e \notin es /\ <<e[2], e[1]>> \notin es}

\* l.185
cycle_accepted(n_, cycle, es) == Cardinality(new_edges(cycle, es)) = n_

\* ------------------------------------------------ is_regular_expander, l.247-269
RECURSIVE ISqrtBetween(_, _, _)
ISqrtBetween(v, lo, hi) ==
    IF lo >= hi THEN lo
    ELSE LET mid == (lo + hi + 1) \div 2
         IN  IF mid * mid <= v THEN ISqrtBetween(v, mid, hi)
             ELSE ISqrtBetween(v, lo, mid - 1)

\* the square root, rounded to the nearest integer
ISqrt(v) ==
    LET r == ISqrtBetween(v, 0, 46339)
    IN  IF v - r * r > r THEN r + 1 ELSE r

\* floats are carried with twice the digits of Scale while they are computed
\* and rounded to Scale where the code's result is stored or compared
Fine == Scale * Scale

ToScale(v) == (v + Scale \div 2) \div Scale

RoundDiv(a, b) == (2 * a + b) \div (2 * b)

\* the product of two floats a, b >= 0 carried at Fine
mul_fine(a, b) ==
    LET a1 == a \div Scale
        a0 == a % Scale
        b1 == b \div Scale
        b0 == b % Scale
    IN  a1 * b1 + (a1 * b0 + a0 * b1 + (a0 * b0) \div Scale + Scale \div 2) \div Scale

\* np.sqrt of an integer k >= 0, at Fine: the integer root of k * Fine and the
\* first-order correction from its remainder
np_sqrt(k) ==
    IF k = 0 THEN 0
    ELSE LET r == ISqrt(k * Fine)
         IN  r * Scale + RoundDiv((k * Fine - r * r) * Scale, 2 * r)

\* the natural logarithm of 2, at Fine
Ln2 == 69314718

\* the exponential series from term j on: y^j / j! + ...
RECURSIVE exp_series(_, _, _)
exp_series(y, j, term) ==
    IF term = 0 THEN 0
    ELSE term + exp_series(y, j + 1, RoundDiv(mul_fine(term, y), j + 1))

\* 2 ** f for a fraction 0 <= f < 1 at Fine: exp(f * ln 2)
pow2_frac(f) == exp_series(mul_fine(f, Ln2), 0, Fine)

RECURSIVE Pow2Int(_)
Pow2Int(k) == IF k <= 0 THEN 1 ELSE 2 * Pow2Int(k - 1)

\* 2 ** e for an exponent e >= 0 at Fine
pow2(e) == Pow2Int(e \div Fine) * pow2_frac(e % Fine)

\* 2 ** np.sqrt(k), tabulated for the degrees a graph of the model can have
pow2_sqrt[k \in 0..(MaxN + MaxLiftN)] == ToScale(pow2(np_sqrt(k)))

\* l.269: 2 ** np.sqrt(d - 1) + epsilon
threshold(deg, eps) == pow2_sqrt[deg - 1] + eps * Scale

\* l.256: the degree of an arbitrary (the first) node
graph_degree(g) == Degree(g, 0)

\* nx.circulant_graph(n, [1, ..., jumps]): node v is joined to v +- s
circulant_graph(n_, jumps) ==
    [n |-> n_, E |-> {{v, (v + s) % n_} : v \in 0..(n_ - 1), s \in 1..jumps}]

\* nx.path_graph(n)
path_graph(n_) == [n |-> n_, E |-> {{v, v + 1} : v \in 0..(n_ - 2)}]

\* 2 * pi, at Fine
TwoPi == 628318531

\* the cosine series from term j on, t2 the square of the angle, term the
\* magnitude t^(2j) / (2j)!
RECURSIVE cos_series(_, _, _)
cos_series(t2, j, term) ==
    IF term = 0 THEN 0
    ELSE term - cos_series(t2, j + 1,
                           RoundDiv(mul_fine(term, t2), (2 * j + 1) * (2 * j + 2)))

\* cos of an angle in [0, pi/2], at Fine
cos_taylor(t) == cos_series(mul_fine(t, t), 0, Fine)

\* the angle 2 * pi * a / b for 0 <= a / b <= 1/4, at Fine
turn_angle(a, b) == (TwoPi \div b) * a + RoundDiv((TwoPi % b) * a, b)

\* cos(2 * pi * p / q) at Fine, the angle first folded into [0, pi/2]
cos_turn(p, q) ==
    LET m == p % q
        f == IF 2 * m > q THEN q - m ELSE m
    IN  IF 4 * f <= q THEN cos_taylor(turn_angle(f, q))
        ELSE 0 - cos_taylor(turn_angle(q - 2 * f, 2 * q))

\* eigenvalue k of the adjacency matrix of circulant_graph(n, [1..jumps]),
\* 2 * jumps < n, at Fine: the sum over the jumps s of 2 * cos(2 * pi * k * s / n)
RECURSIVE circulant_eigenvalue(_, _, _)
circulant_eigenvalue(n_, jumps, k) ==
    IF jumps = 0 THEN 0
    ELSE 2 * cos_turn(k * jumps, n_) + circulant_eigenvalue(n_, jumps - 1, k)

\* l.263: eigsh(A, which="LM", k=2) returns two eigenvalues of largest
\* magnitude: any two places k1, k2 of the spectrum that no third place exceeds
\* in magnitude.  Magnitudes that agree to the precision of the computation
\* are tied, and a tie is broken either way
eigsh_top2(n_, jumps) ==
    LET ev == [k \in 0..(n_ - 1) |-> Abs(circulant_eigenvalue(n_, jumps, k))]
        tie == Scale \div 100
    IN  {kk \in (0..(n_ - 1)) \X (0..(n_ - 1)) :
            /\ kk[1] < kk[2]
            /\ \A k \in 0..(n_ - 1) \ {kk[1], kk[2]} :
                  ev[k] <= ev[kk[1]] + tie /\ ev[k] <= ev[kk[2]] + tie}

\* l.263-266: lambda2 is the smaller of the two eigenvalues eigsh returned,
\* rounded to Scale; one value for each pair eigsh may return
eigsh_lambda2(n_, jumps) ==
    {LET e1 == circulant_eigenvalue(n_, jumps, kk[1])
         e2 == circulant_eigenvalue(n_, jumps, kk[2])
     IN  ToScale(IF e1 <= e2 THEN e1 ELSE e2) : kk \in eigsh_top2(n_, jumps)}

\* l.263: eigsh is iterative, its values are exact up to the last place of
\* Scale, which may come out one up or one down
eigsh_reports(n_, jumps) ==
    UNION {{v - 1, v, v + 1} : v \in eigsh_lambda2(n_, jumps)}

\* eigsh_reports for the sizes and degrees a candidate can have, computed once
eigsh_table[n_ \in 1..(MaxN + MaxLiftN), jumps \in 1..(MaxN + MaxLiftN)] ==
    IF 2 * jumps < n_ THEN eigsh_reports(n_, jumps) ELSE {0}

\* l.262-266 for a candidate of maybe_regular_expander: a union of d/2
\* edge-disjoint Hamiltonian cycles on n <= 6 nodes is a cycle (d = 2), the
\* complete graph (d = 4, n = 5) or the octahedron (d = 4, n = 6), each of them
\* isomorphic to circulant_graph(n, [1..d/2]) and so with its spectrum
candidate_lambda2(g) ==
    IF is_regular(g) /\ graph_degree(g) >= 2 /\ g.n > graph_degree(g)
    THEN eigsh_table[g.n, graph_degree(g) \div 2]
    ELSE {0}

\* l.250-269, lambda2 being min(lams) of l.266
is_regular_expander(g, eps, lambda2) ==
    IF eps < 0 THEN "NetworkXError"
    ELSE IF ~is_regular(g) THEN "False"
    ELSE IF graph_degree(g) < 1 THEN "False"   \* np.sqrt gives nan: compares False
    ELSE IF Abs(lambda2) < threshold(graph_degree(g), eps) THEN "True" ELSE "False"

\* ---------------------------------------------------- lift_topology, l.42-66
MinOf(S) == CHOOSE m \in S : \A o \in S : m <= o
MaxOf(S) == CHOOSE m \in S : \A o \in S : m >= o

\* G.edges, by which networkx.incidence_matrix numbers its columns: node by
\* node from node 0, each edge reported at its smaller endpoint.  The
\* neighbours of one node come in the order add_edges_from (l.194) met them,
\* which is the iteration order of the Python set `edges`: the language does
\* not fix it and it differs between builds, so every order is possible
RECURSIVE orders_of(_)
orders_of(S) ==
    IF S = {} THEN {<<>>}
    ELSE UNION {{<<e>> \o t : t \in orders_of(S \ {e})} : e \in S}

\* the edges reported at node u and at the nodes after it
RECURSIVE edges_from(_, _)
edges_from(g, u) ==
    IF u >= g.n THEN {<<>>}
    ELSE {a \o b : a \in orders_of({e \in g.E : MinOf(e) = u}),
                   b \in edges_from(g, u + 1)}

G_edges(g) == edges_from(g, 0)

\* mutant: the matrix is laid out edge by node
coo_indices_transposed(g, es) ==
    {rc \in (0..(Cardinality(g.E) - 1)) \X Nodes(g) : rc[2] \in es[rc[1] + 1]}

\* networkx.incidence_matrix(G).tocoo(): the (row, col) of the nonzero entries,
\* row = node, col = position of the edge in G.edges
coo_indices(g, es) ==
    {rc \in Nodes(g) \X (0..(Cardinality(g.E) - 1)) : rc[1] \in es[rc[2] + 1]}

\* torch.sparse_coo_tensor(indices, values) without a size: each dimension is
\* the largest index plus one
sparse_coo_tensor(idx) ==
    [size0 |-> IF idx = {} THEN 0 ELSE MaxOf({rc[1] : rc \in idx}) + 1,
     size1 |-> IF idx = {} THEN 0 ELSE MaxOf({rc[2] : rc \in idx}) + 1,
     nnz   |-> idx]

NoLift == [n |-> -1, incidence_hyperedges |-> sparse_coo_tensor({}),
           num_hyperedges |-> -1, x_0 |-> "none"]

\* l.48-66, es being the G.edges of the call; n is the data.num_nodes of the
\* call, kept to compare calls
lift_descriptor(g, x_, es) ==
    LET m == sparse_coo_tensor(coo_indices(g, es))
    IN  [n |-> g.n, incidence_hyperedges |-> m, num_hyperedges |-> m.size1,
         x_0 |-> x_]

\* ------------------------------------------------------------------ state
NoLifting == [exists |-> FALSE, node_degree |-> 0]
NoCtor == [called |-> FALSE, node_degree |-> 0, raised |-> FALSE]

\* -------------------------------------------------------- data_transform.py
\* the TRANSFORMS dictionary, l.29-54: name -> class
TRANSFORMS ==
    [HypergraphKHopLifting |-> "HypergraphKHopLifting",
     HypergraphKNearestNeighborsLifting |-> "HypergraphKNearestNeighborsLifting",
     SimplicialNeighborhoodLifting |-> "SimplicialNeighborhoodLifting",
     SimplicialCliqueLifting |-> "SimplicialCliqueLifting",
     CellCyclesLifting |-> "CellCyclesLifting",
     SumLifting |-> "SumLifting",
     Identity |-> "IdentityTransform",
     InfereKNNConnectivity |-> "InfereKNNConnectivity",
     InfereRadiusConnectivity |-> "InfereRadiusConnectivity",
     NodeDegrees |-> "NodeDegrees",
     OneHotDegreeFeatures |-> "OneHotDegreeFeatures",
     EqualGausFeatures |-> "EqualGausFeatures",
     NodeFeaturesToFloat |-> "NodeFeaturesToFloat",
     CalculateSimplicialCurvature |-> "CalculateSimplicialCurvature",
     KeepOnlyConnectedComponent |-> "KeepOnlyConnectedComponent"]

\* the transform_name arguments tried: every key of the dictionary, the class
\* of expander_graph_lifting.py, a name no class has, and None
TransformNames ==
    DOMAIN TRANSFORMS \cup {"ExpanderGraphLifting", "NoSuchLifting", "None"}

\* the **kwargs tried: every dictionary over these keys and values
KwargKeys == {"k_value", "node_degree"}
KwargValues == 1..MaxKwarg
Kwargs == UNION {[ks -> KwargValues] : ks \in SUBSET KwargKeys}

Batches == {"dataA", "dataB"}

EmptyKwargs == [k \in {} |-> 0]
NoTransform == [cls |-> "None", kwargs |-> EmptyKwargs]
KeyError == [cls |-> "KeyError", kwargs |-> EmptyKwargs]
NoBatch == [by |-> "none", data |-> "none"]
TypeError == [by |-> "TypeError", data |-> "none"]
NoDataTransform ==
    [exists |-> FALSE, parameters |-> EmptyKwargs, transform |-> NoTransform]
NoDataTransformCall == [called |-> FALSE, transform_name |-> "None", raised |-> "none"]

\* l.71: kwargs["transform_name"] = transform_name
with_transform_name(kwargs, transform_name) ==
    [k \in DOMAIN kwargs \cup {"transform_name"} |->
        IF k = "transform_name" THEN transform_name ELSE kwargs[k]]

\* l.74-76: the dictionary lookup and the instantiation; "KeyError" when the
\* dictionary has no such key
make_transform(transform_name, kwargs) ==
    IF transform_name = "None" THEN NoTransform
    ELSE IF transform_name \notin DOMAIN TRANSFORMS THEN KeyError
    ELSE [cls |-> TRANSFORMS[transform_name], kwargs |-> kwargs]

\* DataTransform.__init__, l.68-76
DataTransform_init ==
    /\ ~dt_call.called
    /\ \E transform_name \in TransformNames, kwargs_ \in Kwargs :
          LET kwargs == with_transform_name(kwargs_, transform_name)
              t == make_transform(transform_name, kwargs)
          IN  IF t = KeyError
              THEN /\ dt_call' = [called |-> TRUE, transform_name |-> transform_name,
                                  raised |-> "KeyError"]
                   /\ UNCHANGED data_transform
              ELSE /\ dt_call' = [called |-> TRUE, transform_name |-> transform_name,
                                  raised |-> "none"]
                   /\ data_transform' = [exists |-> TRUE, parameters |-> kwargs,
                                         transform |-> t]
    /\ UNCHANGED <<lifting, ctor, caller, n, d, epsilon, max_tries, seed, x, pc,
                   site, i, iterations, cycles, edges, G, outer_iterations, error,
                   result, passed, drew, created, generated, verified,
                   global_rng_used, lifted, prev, expander_call, transformed_data>>

\* DataTransform.forward, l.91-92: self.transform(data); None is not callable
DataTransform_forward ==
    /\ data_transform.exists
    /\ transformed_data = NoBatch
    /\ \E data \in Batches :
          transformed_data' =
              IF data_transform.transform = NoTransform THEN TypeError
              ELSE [by |-> data_transform.transform.cls, data |-> data]
    /\ UNCHANGED <<lifting, ctor, caller, n, d, epsilon, max_tries, seed, x, pc,
                   site, i, iterations, cycles, edges, G, outer_iterations, error,
                   result, passed, drew, created, generated, verified,
                   global_rng_used, lifted, prev, expander_call, data_transform,
                   dt_call>>

NextTransform ==
    \/ DataTransform_init
    \/ DataTransform_forward

\* no call of is_regular_expander on its own has been made
NoExpanderCall ==
    [kind |-> "none", n |-> 0, jumps |-> 0, G |-> NoGraph, epsilon |-> 0,
     lambda2 |-> 0, answer |-> "none"]

\* the lifting and the generator before anything is called
InitGenerator ==
    /\ lifting = NoLifting
    /\ ctor = NoCtor
    /\ caller = "none"
    /\ n = 0 /\ d = 0 /\ epsilon = 0 /\ max_tries = 0 /\ seed = "None"
    /\ x = "none"
    /\ pc = "idle"
    /\ site = "first"
    /\ i = 0
    /\ iterations = 0
    /\ cycles = <<>>
    /\ edges = {}
    /\ G = NoGraph
    /\ outer_iterations = 0
    /\ error = "none"
    /\ result = NoGraph
    /\ passed = NoGraph
    /\ drew = FALSE
    /\ created = 0
    /\ generated = 0
    /\ verified = 0
    /\ global_rng_used = FALSE
    /\ lifted = NoLift
    /\ prev = NoLift

\* no DataTransform has been constructed
InitTransform ==
    /\ data_transform = NoDataTransform
    /\ dt_call = NoDataTransformCall
    /\ transformed_data = NoBatch

Init ==
    /\ InitGenerator
    /\ expander_call = NoExpanderCall
    /\ InitTransform

\* no call is in progress
Quiet == pc \in {"idle", "returned", "raised"}

\* mutant: any node_degree is accepted
node_degree_ok_always(node_degree) == TRUE

\* l.24: the assert of ExpanderGraphLifting.__init__
node_degree_ok(node_degree) == node_degree % 2 = 0

\* ExpanderGraphLifting.__init__, l.21-26, node_degree taken from degrees
ExpanderGraphLifting_new(degrees) ==
    /\ Quiet
    /\ ~lifting.exists
    /\ \E node_degree \in degrees :
          /\ ctor' = [called |-> TRUE, node_degree |-> node_degree,
                      raised |-> ~node_degree_ok(node_degree)]
          /\ lifting' = IF node_degree_ok(node_degree)
                        THEN [exists |-> TRUE, node_degree |-> node_degree]
                        ELSE lifting
    /\ UNCHANGED <<caller, n, d, epsilon, max_tries, seed, x, pc, site, i,
                   iterations, cycles, edges, G, outer_iterations, error, result,
                   passed, drew, created, generated, verified, global_rng_used,
                   lifted, prev>>
    /\ UNCHANGED <<expander_call, data_transform, dt_call, transformed_data>>

ExpanderGraphLifting_init == ExpanderGraphLifting_new(NodeDegrees)

\* the constructor over the degrees the generator is called with on its own
ExpanderGraphLifting_init_wide == ExpanderGraphLifting_new(Ds)

\* entry of random_regular_expander_graph: the arguments are bound, nothing of
\* the body has run
EnterCall(caller_, n_, d_, epsilon_, max_tries_, seed_) ==
    /\ Quiet
    /\ caller' = caller_
    /\ n' = n_ /\ d' = d_ /\ epsilon' = epsilon_ /\ max_tries' = max_tries_
    /\ seed' = seed_
    /\ pc' = "enter"
    /\ site' = "first"
    /\ i' = 0 /\ iterations' = 0 /\ cycles' = <<>> /\ edges' = {}
    /\ G' = NoGraph
    /\ outer_iterations' = 0
    /\ error' = "none"
    /\ result' = NoGraph
    /\ passed' = NoGraph
    /\ drew' = FALSE
    /\ created' = 0 /\ generated' = 0 /\ verified' = 0
    /\ global_rng_used' = FALSE

\* l.274: seed=None
default_seed == "None"

\* a caller of random_regular_expander_graph, l.273-275.  A call starts from
\* the same generator state whatever ran before it (EnterCall resets all of it),
\* so one call per behaviour reaches every state a sequence of calls reaches
random_regular_expander_graph ==
    /\ pc = "idle"
    /\ \E n_ \in Ns, d_ \in Ds, epsilon_ \in Epsilons, max_tries_ \in MaxTriesValues :
          EnterCall("direct", n_, d_, epsilon_, max_tries_, default_seed)
    /\ UNCHANGED <<lifting, ctor, x, lifted, prev>>
    /\ UNCHANGED <<expander_call, data_transform, dt_call, transformed_data>>

\* l.42: no seed is passed, so np_random_state supplies numpy's global RandomState
lift_seed == default_seed

\* ExpanderGraphLifting.lift_topology, l.42: the call of the generator, on a
\* data object whose num_nodes is taken from nodes
lift_topology_on(nodes) ==
    /\ lifting.exists
    /\ \E n_ \in nodes, x_ \in Features :
          /\ EnterCall("lift", n_, lifting.node_degree, DefaultEpsilon,
                       DefaultMaxTries, lift_seed)
          /\ x' = x_
    /\ prev' = lifted
    /\ lifted' = NoLift
    /\ UNCHANGED <<lifting, ctor>>
    /\ UNCHANGED <<expander_call, data_transform, dt_call, transformed_data>>

lift_topology == lift_topology_on(LiftNs)

\* the first lift_topology call of an object, on inputs as large as those the
\* generator is called with on its own
lift_topology_first ==
    /\ pc = "idle"
    /\ lift_topology_on(Ns)

\* mutant: the retry loop gives up one candidate early
outer_exhausted_early(it) == it <= 1

\* l.338
outer_exhausted(it) == it = 0

\* maybe_regular_expander returns g to random_regular_expander_graph: l.327-330
\* at the first call, l.334-341 at a retry
MaybeReturned(g) ==
    /\ G' = g
    /\ generated' = generated + 1
    /\ IF site = "first"
       THEN /\ outer_iterations' = max_tries
            /\ pc' = "verify"
            /\ error' = error
       ELSE /\ outer_iterations' = outer_iterations
            /\ IF outer_exhausted(outer_iterations)
               THEN /\ pc' = "raised"
                    /\ error' = "Too many iterations in random_regular_expander_graph"
               ELSE /\ pc' = "verify"
                    /\ error' = error

\* maybe_regular_expander, l.145-169: argument checks, the empty graph, the
\* first cycle's budget
maybe_regular_expander_enter ==
    /\ pc = "enter"
    /\ LET err == maybe_validate(n, d)
       IN  IF err # "ok"
           THEN /\ pc' = "raised"
                /\ error' = err
                /\ UNCHANGED <<G, created, generated, outer_iterations, i,
                               iterations, cycles, edges>>
           ELSE /\ created' = created + 1
                /\ IF n < 2
                   THEN /\ MaybeReturned(empty_graph(n))
                        /\ UNCHANGED <<i, iterations, cycles, edges>>
                   ELSE /\ G' = empty_graph(n)
                        /\ cycles' = <<>>
                        /\ edges' = {}
                        /\ i' = 0
                        /\ iterations' = max_tries
                        /\ pc' = "draw"
                        /\ UNCHANGED <<generated, outer_iterations, error>>
    /\ UNCHANGED <<lifting, ctor, caller, n, d, epsilon, max_tries, seed, x, site,
                   result, passed, drew, verified, global_rng_used, lifted, prev>>
    /\ UNCHANGED <<expander_call, data_transform, dt_call, transformed_data>>

\* l.189: the test that raises, made after the draw whatever its outcome
budget_exhausted(it, accepted) == it = 0

\* maybe_regular_expander, l.171-196: one iteration of the while loop, and what
\* follows it when the loop or the function ends
maybe_regular_expander_draw ==
    /\ pc = "draw"
    /\ max_tries > 0 \/ max_tries - iterations < MaxOverrun
    /\ \E p \in Permutations(0..(n - 2)) :
          LET cycle == make_cycle(n, p)
              acc == cycle_accepted(n, cycle, edges)
              es2 == IF acc THEN edges \cup new_edges(cycle, edges) ELSE edges
              it2 == iterations - 1
          IN  /\ cycles' = IF acc THEN Append(cycles, cycle) ELSE cycles
              /\ edges' = es2
              /\ IF budget_exhausted(it2, acc)
                 THEN /\ pc' = "raised"
                      /\ error' = "Too many iterations in maybe_regular_expander"
                      /\ iterations' = it2
                      /\ UNCHANGED <<i, G, generated, outer_iterations>>
                 ELSE IF Cardinality(es2) # (i + 1) * n
                 THEN /\ pc' = "draw"
                      /\ iterations' = it2
                      /\ UNCHANGED <<i, G, generated, outer_iterations, error>>
                 ELSE IF i + 1 < d \div 2
                 THEN /\ pc' = "draw"
                      /\ i' = i + 1
                      /\ iterations' = max_tries
                      /\ UNCHANGED <<G, generated, outer_iterations, error>>
                 ELSE /\ MaybeReturned(add_edges_from(G, es2))
                      /\ iterations' = it2
                      /\ i' = i
    /\ drew' = TRUE
    /\ global_rng_used' = (global_rng_used \/ seed = "None")
    /\ UNCHANGED <<lifting, ctor, caller, n, d, epsilon, max_tries, seed, x, site,
                   result, passed, created, verified, lifted, prev>>
    /\ UNCHANGED <<expander_call, data_transform, dt_call, transformed_data>>

\* random_regular_expander_graph, l.332-343: one evaluation of the while
\* condition; on True the graph is returned, on False the body starts the next
\* candidate.  Returned to lift_topology (l.42), the call leaves nothing but
\* the graph: the locals of the generator are gone with its frames
is_regular_expander_check ==
    /\ pc = "verify"
    /\ max_tries > 0 \/ verified < MaxOverrun
    /\ \E lambda2 \in candidate_lambda2(G) :
          LET v == is_regular_expander(G, epsilon, lambda2)
          IN  CASE v = "NetworkXError" ->
                    /\ pc' = "raised"
                    /\ error' = "epsilon must be non negative"
                    /\ UNCHANGED <<verified, passed, result, outer_iterations,
                                   site, i, iterations, cycles, edges>>
                [] v = "True" ->
                    /\ verified' = verified + 1
                    /\ passed' = G
                    /\ result' = G
                    /\ IF caller = "lift"
                       THEN /\ pc' = "lifting"
                            /\ i' = 0 /\ iterations' = 0
                            /\ cycles' = <<>> /\ edges' = {}
                            /\ outer_iterations' = 0
                       ELSE /\ pc' = "returned"
                            /\ UNCHANGED <<i, iterations, cycles, edges,
                                           outer_iterations>>
                    /\ UNCHANGED <<error, site>>
                [] v = "False" ->
                    /\ pc' = "enter"
                    /\ site' = "retry"
                    /\ verified' = verified + 1
                    /\ outer_iterations' = outer_iterations - 1
                    /\ UNCHANGED <<error, passed, result, i, iterations, cycles,
                                   edges>>
    /\ UNCHANGED <<lifting, ctor, caller, n, d, epsilon, max_tries, seed, x, G,
                   drew, created, generated, global_rng_used, lifted, prev>>
    /\ UNCHANGED <<expander_call, data_transform, dt_call, transformed_data>>

\* ExpanderGraphLifting.lift_topology, l.44-66: the incidence matrix of the
\* graph the generator returned, and the descriptor
lift_topology_return ==
    /\ pc = "lifting"
    /\ \E es \in G_edges(G) : lifted' = lift_descriptor(G, x, es)
    /\ pc' = "returned"
    /\ UNCHANGED <<lifting, ctor, caller, n, d, epsilon, max_tries, seed, x, site,
                   i, iterations, cycles, edges, G, outer_iterations, error,
                   result, passed, drew, created, generated, verified,
                   global_rng_used, prev>>
    /\ UNCHANGED <<expander_call, data_transform, dt_call, transformed_data>>

\* the generator called on its own
Next ==
    \/ random_regular_expander_graph
    \/ maybe_regular_expander_enter
    \/ maybe_regular_expander_draw
    \/ is_regular_expander_check

Spec == Init /\ [][Next]_vars

\* the lifting class and the generator it calls
NextLift ==
    \/ ExpanderGraphLifting_init
    \/ lift_topology
    \/ maybe_regular_expander_enter
    \/ maybe_regular_expander_draw
    \/ is_regular_expander_check
    \/ lift_topology_return

SpecLift == Init /\ [][NextLift]_vars

\* one lifting object and its first lift_topology call, over the wider degrees
\* and sizes
NextLiftFirst ==
    \/ ExpanderGraphLifting_init_wide
    \/ lift_topology_first
    \/ maybe_regular_expander_enter
    \/ maybe_regular_expander_draw
    \/ is_regular_expander_check
    \/ lift_topology_return

SpecLiftFirst == Init /\ [][NextLiftFirst]_vars

\* ------------------------------------ is_regular_expander called on its own
\* the graphs handed to is_regular_expander: circulant graphs (regular of
\* degree 2 * jumps) and paths (not regular)
ExpanderInputs ==
    {[kind |-> "circulant", n |-> n_, jumps |-> j] :
        n_ \in 3..MaxCircN, j \in 1..MaxJumps} \cup
    {[kind |-> "path", n |-> n_, jumps |-> 0] : n_ \in 3..MaxCircN}

input_graph(inp) ==
    IF inp.kind = "circulant" THEN circulant_graph(inp.n, inp.jumps)
    ELSE path_graph(inp.n)

InitExpander ==
    /\ InitGenerator
    /\ InitTransform
    /\ \E inp \in ExpanderInputs, epsilon_ \in Epsilons :
          /\ inp.kind = "circulant" => inp.n > 2 * inp.jumps
          /\ expander_call = [kind |-> inp.kind, n |-> inp.n, jumps |-> inp.jumps,
                              G |-> input_graph(inp), epsilon |-> epsilon_,
                              lambda2 |-> 0, answer |-> "none"]

\* is_regular_expander(G, epsilon=epsilon), l.250-269: eigsh runs (l.263) only
\* when the epsilon and regularity tests let it
is_regular_expander_call ==
    /\ expander_call.answer = "none"
    /\ LET c == expander_call
           reached == c.epsilon >= 0 /\ is_regular(c.G)
       IN  \E l2 \in IF reached THEN eigsh_reports(c.n, c.jumps) ELSE {0} :
              expander_call' = [c EXCEPT !.lambda2 = l2,
                                         !.answer = is_regular_expander(c.G, c.epsilon, l2)]
    /\ UNCHANGED <<lifting, ctor, caller, n, d, epsilon, max_tries, seed, x, pc,
                   site, i, iterations, cycles, edges, G, outer_iterations, error,
                   result, passed, drew, created, generated, verified,
                   global_rng_used, lifted, prev, data_transform, dt_call,
                   transformed_data>>

NextExpander == is_regular_expander_call

SpecExpander == InitExpander /\ [][NextExpander]_vars

SpecTransform == Init /\ [][NextTransform]_vars

\* ------------------------------------------------------------------ claims
InnerError == "Too many iterations in maybe_regular_expander"
OuterError == "Too many iterations in random_regular_expander_graph"
EpsilonError == "epsilon must be non negative"
ArgumentErrors ==
    {"n must be a positive integer", "d must be greater than or equal to 2",
     "d must be even", "Need n-1>= d to have room for independent cycles"}

\* the undirected edges a set of ordered pairs stands for
Undirected(es) == {{e[1], e[2]} : e \in es}

\* G holds a graph that maybe_regular_expander returned
CandidateReady == pc \in {"verify", "returned"} \/ (pc = "raised" /\ error = OuterError)

\* C1: a graph returned by maybe_regular_expander with n >= 2 has n*d/2 edges,
\* every node of degree d, no self-loop and no edge twice in either
\* orientation; while cycles are being collected the accumulated edge set holds
\* n pairwise distinct undirected edges per accepted cycle.
C1_RegularSimpleGraph ==
    /\ (CandidateReady /\ G.n >= 2) =>
          /\ G.n = n
          /\ 2 * Cardinality(G.E) = n * d
          /\ \A v \in Nodes(G) : Degree(G, v) = d
          /\ \A e \in G.E : Cardinality(e) = 2
          /\ Cardinality(edges) = Cardinality(G.E)
    /\ (pc = "returned") => result = G
    /\ (pc = "draw") =>
          /\ Cardinality(edges) = i * n
          /\ Len(cycles) = i
    /\ Cardinality(Undirected(edges)) = Cardinality(edges)
    /\ Cardinality(edges) = Len(cycles) * n
    /\ \A e \in edges : e[1] # e[2]

\* a 4-regular graph on 5 nodes, made of two cycles, was returned
C1_Witness ==
    pc = "returned" /\ n = 5 /\ d = 4 /\ Len(cycles) = 2 /\ Cardinality(result.E) = 10

\* C2: random_regular_expander_graph returns only the graph that passed
\* is_regular_expander, every verification is of a freshly generated
\* candidate, and the exhaustion error comes only after max_tries candidates
\* have failed verification.
C2_ReturnOnlyVerified ==
    /\ (pc = "returned") =>
          /\ result = passed
          /\ result = G
          /\ is_regular(result)
          /\ generated = verified
    /\ (pc = "verify") => generated = verified + 1
    /\ (pc # "returned") => (passed = NoGraph /\ result = NoGraph)
    /\ (error = OuterError) =>
          /\ pc = "raised"
          /\ max_tries >= 1
          /\ verified = max_tries

\* the retry loop was exhausted after two failed verifications
C2_Witness == pc = "raised" /\ error = OuterError /\ max_tries = 2 /\ verified = 2

\* C3: the construction error of maybe_regular_expander is raised if and only
\* if none of the max_tries draws of the cycle was edge-disjoint from the cycles
\* accepted before; a draw accepted at the max_tries-th attempt raises nothing.
C3_InnerErrorOnlyWithoutCycle ==
    /\ (error = InnerError) => Cardinality(edges) = i * n
    /\ (pc = "draw" /\ max_tries >= 1) => max_tries - iterations < max_tries

\* the (n, d) that maybe_regular_expander is documented to accept
ArgumentsValid == n >= 1 /\ d >= 2 /\ d % 2 = 0 /\ n - 1 >= d

\* C4: for every integer max_tries, zero and negative included, the draw loop
\* of maybe_regular_expander and the verification loop of
\* random_regular_expander_graph stop after a number of iterations bounded by
\* max_tries (one iteration is granted to a max_tries below 1).
C4_LoopsBoundedByMaxTries ==
    (caller # "none" /\ ArgumentsValid /\ epsilon >= 0) =>
        /\ max_tries - iterations <= Max(max_tries, 1)
        /\ verified <= Max(max_tries, 1)

\* C5: maybe_regular_expander called with n < 1, d < 2, d odd or n-1 < d raises
\* before any permutation is drawn, before any graph is created and without
\* touching the random generator; with any other (n, d) it raises none of
\* these errors.
C5_ArgumentErrorsFirst ==
    (caller # "none" /\ pc # "enter") =>
        /\ ~ArgumentsValid =>
              /\ pc = "raised"
              /\ error \in ArgumentErrors
              /\ ~drew
              /\ created = 0
              /\ G = NoGraph
              /\ ~global_rng_used
        /\ ArgumentsValid => error \notin ArgumentErrors

\* d = 4 on 3 nodes was rejected for lack of room
C5_Witness ==
    /\ pc = "raised" /\ n = 3 /\ d = 4
    /\ error = "Need n-1>= d to have room for independent cycles"

\* C6: with n = 1 and an even degree d >= 2 the generator returns the graph of
\* one node and no edge, without cycle construction and without raising.
C6_OneNodeTrivialGraph ==
    (caller # "none" /\ n = 1 /\ d >= 2 /\ d % 2 = 0 /\ epsilon >= 0 /\ pc # "enter") =>
        /\ pc # "raised"
        /\ G = empty_graph(1)
        /\ ~drew

\* C7: constructing ExpanderGraphLifting with an odd node_degree fails, so that
\* no lifting object exists for lift_topology to be called on and no graph is
\* generated for it; with an even node_degree the object exists and stores
\* node_degree unchanged.
C7_OddDegreeRejectedAtConstruction ==
    /\ (ctor.called /\ ctor.node_degree % 2 # 0) =>
          /\ ctor.raised
          /\ ~lifting.exists
          /\ caller = "none"
          /\ ~drew /\ created = 0
    /\ (ctor.called /\ ctor.node_degree % 2 = 0) =>
          /\ ~ctor.raised
          /\ lifting.exists
          /\ lifting.node_degree = ctor.node_degree
    /\ (caller = "lift") =>
          /\ lifting.exists
          /\ lifting.node_degree % 2 = 0
          /\ d = lifting.node_degree
    /\ lifting.exists => ctor.called

\* ExpanderGraphLifting(node_degree=3) raised
C7_Witness == ctor.called /\ ctor.node_degree = 3 /\ ctor.raised /\ ~lifting.exists

\* C8: random_regular_expander_graph called with epsilon < 0 raises its
\* validation error before any permutation is drawn or candidate graph built.
C8_NegativeEpsilonRejectedFirst ==
    (caller # "none" /\ ArgumentsValid /\ epsilon < 0) =>
        /\ ~drew
        /\ created = 0
        /\ (pc = "raised" => error = EpsilonError)

\* C9: lift_topology touches no process-global state, and two calls on the same
\* input with the same configuration return the same incidence structure.
C9_LiftReproducible ==
    /\ (caller = "lift") => ~global_rng_used
    /\ (lifted # NoLift /\ prev # NoLift /\ prev.n = lifted.n /\ prev.x_0 = lifted.x_0) =>
          lifted.incidence_hyperedges = prev.incidence_hyperedges

\* the nonzero entries of column c / row r of a sparse matrix
ColumnEntries(m, c) == {rc \in m.nnz : rc[2] = c}
RowEntries(m, r) == {rc \in m.nnz : rc[1] = r}

\* C10: when lift_topology succeeds on n nodes with degree d, the incidence
\* matrix has n rows and n*d/2 columns, num_hyperedges is n*d/2, every column
\* has exactly 2 nonzero entries, every row exactly d, and x_0 is data.x.
C10_IncidenceOfRegularGraph ==
    (lifted # NoLift) =>
        LET m == lifted.incidence_hyperedges
        IN  /\ pc = "returned" /\ caller = "lift"
            /\ m.size0 = n
            /\ 2 * m.size1 = n * d
            /\ 2 * lifted.num_hyperedges = n * d
            /\ \A c \in 0..(m.size1 - 1) : Cardinality(ColumnEntries(m, c)) = 2
            /\ \A r \in 0..(n - 1) : Cardinality(RowEntries(m, r)) = d
            /\ \A rc \in m.nnz : rc[1] \in 0..(n - 1) /\ rc[2] \in 0..(m.size1 - 1)
            /\ lifted.x_0 = x

\* a lift of a 5-node input with node_degree 4 returned its descriptor, a
\* matrix of 5 rows and 10 columns
C10_Witness ==
    /\ lifted # NoLift /\ n = 5 /\ d = 4 /\ x = "xB"
    /\ lifted.num_hyperedges = 10
    /\ lifted.incidence_hyperedges.size0 = 5
    /\ lifted.incidence_hyperedges.size1 = 10

\* the bound of the documentation (l.209, l.226): 2 * sqrt(d - 1) + epsilon
alon_boppana_bound(deg, eps) == ToScale(2 * np_sqrt(deg - 1)) + eps * Scale

\* C11: is_regular_expander, called with epsilon >= 0, answers True exactly
\* when the graph is regular of some degree d and the second-largest-magnitude
\* eigenvalue of its adjacency matrix is, in absolute value, strictly below
\* 2 * sqrt(d - 1) + epsilon; a graph that is not regular is answered False.
C11_AcceptsBelowAlonBoppanaBound ==
    LET c == expander_call
    IN  (c.answer # "none" /\ c.epsilon >= 0) =>
            /\ c.answer \in {"True", "False"}
            /\ ~is_regular(c.G) => c.answer = "False"
            /\ is_regular(c.G) =>
                  (c.answer = "True" <=>
                     Abs(c.lambda2) < alon_boppana_bound(graph_degree(c.G), c.epsilon))

\* C12: a call of random_regular_expander_graph with valid arguments that ends
\* by returning or by the exhaustion error of l.339 has verified every
\* candidate it generated: the candidates generated are as many as the
\* verifications performed, the last candidate included.
C12_EveryCandidateVerified ==
    (/\ pc \in {"returned", "raised"}
     /\ error \in {"none", OuterError}
     /\ ArgumentsValid /\ epsilon >= 0 /\ max_tries >= 1) =>
        generated = verified

\* the class names of the three graph-to-hypergraph liftings
HypergraphLiftings ==
    {"HypergraphKHopLifting", "HypergraphKNearestNeighborsLifting",
     "ExpanderGraphLifting"}

\* C13: DataTransform constructed with the class name of one of the three
\* graph-to-hypergraph liftings finds it in TRANSFORMS and holds an instance
\* of that class; constructed with a name that TRANSFORMS does not have, it
\* raises and no DataTransform object results.
C13_HypergraphLiftingsSelectable ==
    dt_call.called =>
        /\ dt_call.transform_name \in HypergraphLiftings =>
              /\ dt_call.raised = "none"
              /\ data_transform.exists
              /\ data_transform.transform.cls = dt_call.transform_name
        /\ (/\ dt_call.transform_name \notin DOMAIN TRANSFORMS
            /\ dt_call.transform_name \notin HypergraphLiftings
            /\ dt_call.transform_name # "None") =>
              /\ dt_call.raised # "none"
              /\ ~data_transform.exists

====
